---- MODULE Spec2Model ----
(***************************************************************************)
(* Model of src/mcp-client.py: the MCP client session (main, chat_loop)    *)
(* and the tool-calling loop of MCPClient.process_query for the two        *)
(* provider variants (_process_anthropic_query = Variant A,                *)
(* _process_openai_query = Variant B).                                     *)
(*                                                                         *)
(* One action is one stretch of code between two suspension points (an     *)
(* external call being issued or returning) or one iteration of a loop.    *)
(* The model API, the tool host and the user are the environment: what     *)
(* they return is drawn from small sets.                                   *)
(***************************************************************************)
EXTENDS Integers, Sequences, FiniteSets, Bags, TLC

(* ------------------------------ bounds -------------------------------- *)

\* queries typed by the user in one session
MaxQueries == 2
\* content blocks (Variant A) or tool-call entries (Variant B) per response
MaxBlocks == 2
\* tool-call entries the model sends within one query (Variant B)
MaxToolCalls == 3

(* ----------------------------- environment ---------------------------- *)

Providers == {"anthropic", "openai"}

Queries == {"what is 2+2"}

ToolNames == {"add"}

\* result.content of a successful call_tool
ToolResults == {"{\"result\": 4}"}

\* message.content is None
None == "None"

\* an object without a 'text' attribute
NoAttr == "NoAttr"

\* the tool lists the tool host may answer list_tools with
HostToolLists ==
    { <<>>,
      << [name |-> "add", description |-> "adds", inputSchema |-> "schema_add"],
         [name |-> "sub", description |-> "subtracts", inputSchema |-> "schema_sub"] >> }

\* tool_call.function.arguments strings the model may send (Variant B)
JsonArgStrings == {"{\"a\": 1}", "{bad json"}

\* content.input objects the model may send (Variant A): key/value pairs
StructuredArgs == { << <<"a", 1>> >> }

SeqUpTo(S, n) == UNION { [1..k -> S] : k \in 0..n }

\* Variant A: a response is a sequence of typed content blocks
TextBlocks ==
    { [type |-> "text", text |-> "4", name |-> "", input |-> <<>>] }

ToolUseBlocks ==
    { [type |-> "tool_use", text |-> t, name |-> n, input |-> i] :
        t \in {NoAttr, "let me add"}, n \in ToolNames, i \in StructuredArgs }

Blocks == TextBlocks \cup ToolUseBlocks

AnthropicResponses == SeqUpTo(Blocks, MaxBlocks)

\* Variant B: a response is one message with optional text and tool calls;
\* the provider assigns the call ids, distinct within a message
CallId(i) == IF i = 1 THEN "call_1" ELSE IF i = 2 THEN "call_2" ELSE
             IF i = 3 THEN "call_3" ELSE "call_4"

ToolCallLists ==
    UNION { { [i \in 1..k |->
                 [id |-> CallId(i), name |-> "add", arguments |-> a[i]]] :
              a \in [1..k -> JsonArgStrings] } : k \in 0..MaxBlocks }

OpenAIMessages ==
    { [content |-> c, tool_calls |-> tc] :
        c \in {None, "4"}, tc \in ToolCallLists }

(* ------------------------- pure helper functions ---------------------- *)

\* The text of a transcript segment is a sequence of string pieces that
\* stands for their concatenation.

\* datetime.now().strftime("%H:%M:%S"): the clock value is not modelled
timestamp == "HH:MM:SS"

\* mutant of format_message: the content is returned undecorated
format_message_Bare(role, content, is_tool) == content

\* lines 23-39
format_message(role, content, is_tool) ==
    LET prefix == IF is_tool THEN <<"[", timestamp, " Tool]">>
                  ELSE IF role = "assistant" THEN <<"[", timestamp, " AI]">>
                  ELSE <<"[", timestamp, " User]">>
    IN  prefix \o <<" ">> \o content \o <<"\n">>

\* json.loads on the argument strings of JsonArgStrings
json_loads(s) ==
    IF s = "{\"a\": 1}" THEN [ok |-> TRUE, value |-> << <<"a", 1>> >>, err |-> ""]
    ELSE IF s = "{}" THEN [ok |-> TRUE, value |-> <<>>, err |-> ""]
    ELSE [ok |-> FALSE, value |-> <<>>,
          err |-> "Expecting property name enclosed in double quotes"]

\* json.dumps(obj, ensure_ascii=False, indent=2)
json_dumps(obj) ==
    IF obj = <<>> THEN "{}"
    ELSE IF obj = << <<"a", 1>> >> THEN "{\n  \"a\": 1\n}"
    ELSE "{...}"

\* str(obj) of a dict inside an f-string
py_str(obj) ==
    IF obj = <<>> THEN "{}"
    ELSE IF obj = << <<"a", 1>> >> THEN "{'a': 1}"
    ELSE "{...}"

\* truth value of a dict (tool_args)
TruthyArgs(obj) == obj # <<>>

\* truth value of an optional string (message.content)
TruthyStr(x) == x # "" /\ x # None

\* hasattr(content, 'text') and content.text
HasText(content) == content.text # NoAttr /\ content.text # ""

\* "sep".join(final_text), as a sequence of pieces
RECURSIVE Join(_, _)
Join(sep, segs) ==
    IF segs = <<>> THEN <<>>
    ELSE IF Len(segs) = 1 THEN segs[1]
    ELSE segs[1] \o sep \o Join(sep, Tail(segs))

\* the entry of available_tools built from one tool descriptor
AdaptTool(tool, prov) ==
    IF prov = "anthropic"
    THEN [name |-> tool.name, description |-> tool.description,
          parameters |-> tool.inputSchema]
    ELSE [type |-> "function",
          function |-> [name |-> tool.name, description |-> tool.description,
                        parameters |-> tool.inputSchema]]

\* mutant of AdaptTools: the entries come out in reverse host order
AdaptTools_Reversed(tools, prov) ==
    [i \in 1..Len(tools) |-> AdaptTool(tools[Len(tools) + 1 - i], prov)]

\* lines 120-135: the list comprehension over response.tools
AdaptTools(tools, prov) == [i \in 1..Len(tools) |-> AdaptTool(tools[i], prov)]

\* a conversation turn; fields a turn does not carry are left empty
Turn(role, content, tool_calls, tool_call_id) ==
    [role |-> role, content |-> content, tool_calls |-> tool_calls,
     tool_call_id |-> tool_call_id]

UserTurn(q) == Turn("user", q, <<>>, "")

\* a recorded submit: the conversation sent and the tools= argument
SubmitRequest(msgs, has_tools, tools) ==
    [messages |-> msgs, has_tools |-> has_tools, tools |-> tools]

\* mutant of AnthropicAppendToolResult: the result turn is inserted at the
\* front of the conversation
AnthropicAppendToolResult_Front(msgs, content, result) ==
    << Turn("user", result, <<>>, "") >> \o msgs

\* Variant A, lines 172-180: the turns one tool result adds
AnthropicAppendToolResult(msgs, content, result) ==
    LET withText == IF HasText(content)
                    THEN Append(msgs, Turn("assistant", content.text, <<>>, ""))
                    ELSE msgs
    IN  Append(withText, Turn("user", result, <<>>, ""))

\* mutant of OpenAIAppendToolResult: the tool-role turn is forgotten
OpenAIAppendToolResult_NoToolTurn(msgs, message, tool_call, result) ==
    Append(msgs, Turn("assistant", message.content, message.tool_calls, ""))

\* Variant B, lines 239-248: the turns one tool result adds
OpenAIAppendToolResult(msgs, message, tool_call, result) ==
    Append(Append(msgs,
                  Turn("assistant", message.content, message.tool_calls, "")),
           Turn("tool", result, <<>>, tool_call.id))

\* Variant B, lines 220-222: the diagnostic of a decode failure
DecodeErrorSegment(tool_call) ==
    format_message("system",
                   <<"decode error: ", json_loads(tool_call.arguments).err,
                     "\nraw arguments: ", tool_call.arguments>>,
                   FALSE)

\* Variant B, lines 226-230: the invocation annotation
OpenAICallSegment(tool_name, args) ==
    format_message("system",
                   <<"calling tool: ", tool_name>> \o
                   (IF TruthyArgs(args)
                    THEN <<"\narguments:\n", json_dumps(args)>> ELSE <<>>),
                   TRUE)

\* Variant B, lines 236-237: the result annotation
OpenAIResultSegment(result) ==
    format_message("system", <<"tool result:\n", result>>, TRUE)

\* Variant A, line 170: the invocation annotation
AnthropicCallSegment(tool_name, args) ==
    <<"[calling tool ", tool_name, ", arguments ", py_str(args), "]">>

(* ------------------------------- state -------------------------------- *)

VARIABLES
    provider,        \* self.model_provider, fixed at construction
    shellPc,         \* position of main / chat_loop
    exit_stack,      \* self.exit_stack: the contexts entered, in order
    opens,           \* times the channel to the tool host was opened
    closes,          \* times the channel to the tool host was released
    nQueries,        \* queries read so far in this session
    printed,         \* what chat_loop printed last: "response" or the error
    leaving,         \* why main left its try block: "" while it has not
    pc,              \* position of process_query
    error,           \* the exception process_query raised last
    query,           \* the query being processed
    available_tools, \* the adapted tool list of this query
    messages,        \* the conversation (local of the _process_* method)
    final_text,      \* the transcript segments (local)
    tool_results,    \* tool_results (local)
    response,        \* the most recently received model response / message
    iter,            \* the sequence the for loop iterates over
    iterResp,        \* number of the response `iter` was taken from
    idx,             \* position of the for loop in iter (1-based)
    tool_args,       \* arguments of the tool call in flight
    submits,         \* requests sent to the model in this query, in order
    invoked,         \* tool invocations issued in this query, in order
    nRequested,      \* tool-call entries received in this query (Variant B)
    nReturned,       \* call_tool invocations of this query that returned
    first,           \* the first response received in this query
    host_tools,      \* response.tools of the list_tools answer (line 118)
    inflight         \* bag of the external calls issued and not yet completed

vars == << provider, shellPc, exit_stack, opens, closes, nQueries, printed,
           leaving, pc, error, query, available_tools, messages, final_text, tool_results,
           response, iter, iterResp, idx, tool_args, submits, invoked,
           nRequested, nReturned, first, host_tools, inflight >>

shellVars == << shellPc, exit_stack, opens, closes, nQueries, printed,
               leaving >>

\* a response value of the provider's shape that carries nothing
NoResponse == IF provider = "anthropic" THEN <<>>
              ELSE [content |-> None, tool_calls |-> <<>>]

Init ==
    /\ provider \in Providers
    /\ shellPc = "connect"
    /\ exit_stack = <<>>
    /\ opens = 0
    /\ closes = 0
    /\ nQueries = 0
    /\ printed = "none"
    /\ leaving = ""
    /\ pc = "idle"
    /\ error = "none"
    /\ query = ""
    /\ available_tools = <<>>
    /\ messages = <<>>
    /\ final_text = <<>>
    /\ tool_results = <<>>
    /\ response = NoResponse
    /\ iter = <<>>
    /\ iterResp = 0
    /\ idx = 1
    /\ tool_args = <<>>
    /\ submits = <<>>
    /\ invoked = <<>>
    /\ nRequested = 0
    /\ nReturned = 0
    /\ first = NoResponse
    /\ host_tools = <<>>
    /\ inflight = EmptyBag

queryVars == << pc, error, query, available_tools, messages, final_text,
                tool_results, response, iter, iterResp, idx, tool_args,
                submits, invoked, nRequested, nReturned, first, host_tools,
                inflight >>

\* an external call is issued / has completed
Issue(call) == inflight (+) SetToBag({call})
Complete(call) == inflight (-) SetToBag({call})

\* one entry of the log of tool invocations
Invocation(name, args) ==
    [resp |-> iterResp, idx |-> idx, name |-> name, args |-> args,
     after |-> Len(submits)]

(* --------------------------- main / chat_loop ------------------------- *)

ConnectOutcomes == {"bad_path", "spawn_failed", "init_failed", "ok"}

\* connect_to_server, lines 73-106, called from main, line 326
ConnectToServer ==
    /\ shellPc = "connect"
    /\ \E outcome \in ConnectOutcomes :
         /\ exit_stack' = IF outcome \in {"bad_path", "spawn_failed"}
                          THEN exit_stack
                          ELSE exit_stack \o <<"stdio_client", "ClientSession">>
         /\ opens' = IF outcome \in {"bad_path", "spawn_failed"}
                     THEN opens ELSE opens + 1
         /\ shellPc' = IF outcome = "ok" THEN "input" ELSE "cleanup"
         /\ leaving' = IF outcome = "ok" THEN leaving ELSE "connect_failed"
    /\ UNCHANGED << provider, closes, nQueries, printed >>
    /\ UNCHANGED queryVars

\* chat_loop, lines 275-282: a query is read and process_query is entered,
\* which issues list_tools (line 118)
ReadQuery ==
    /\ shellPc = "input"
    /\ nQueries < MaxQueries
    /\ \E q \in Queries :
         /\ query' = q
         /\ nQueries' = nQueries + 1
         /\ shellPc' = "query"
         /\ pc' = "list_tools"
         /\ inflight' = Issue("list_tools")
         /\ submits' = <<>>
         /\ invoked' = <<>>
         /\ nRequested' = 0
         /\ nReturned' = 0
         /\ iterResp' = 0
         /\ first' = NoResponse
    /\ UNCHANGED << provider, exit_stack, opens, closes, printed, leaving,
                    available_tools, messages, final_text, tool_results,
                    response, iter, idx, tool_args >>
    /\ UNCHANGED error
    /\ UNCHANGED host_tools

\* chat_loop, lines 278-279: 'quit' leaves the loop
Quit ==
    /\ shellPc = "input"
    /\ shellPc' = "cleanup"
    /\ leaving' = "quit"
    /\ UNCHANGED << provider, exit_stack, opens, closes, nQueries, printed >>
    /\ UNCHANGED queryVars

\* chat_loop, lines 272-288: an error that `except Exception` does not catch
\* (KeyboardInterrupt at the prompt of line 275) escapes chat_loop and main's
\* try block
Interrupt ==
    /\ shellPc = "input"
    /\ shellPc' = "cleanup"
    /\ leaving' = "escaped"
    /\ UNCHANGED << provider, exit_stack, opens, closes, nQueries, printed >>
    /\ UNCHANGED queryVars

\* chat_loop, line 284: the returned transcript is printed
PrintResponse ==
    /\ shellPc = "query"
    /\ pc = "returned"
    /\ printed' = "response"
    /\ pc' = "idle"
    /\ shellPc' = "input"
    /\ UNCHANGED << provider, exit_stack, opens, closes, nQueries, error,
                    leaving, query, available_tools, messages, final_text, tool_results,
                    response, iter, iterResp, idx, tool_args, submits,
                    invoked, inflight >>
    /\ UNCHANGED << nRequested, nReturned >>
    /\ UNCHANGED first
    /\ UNCHANGED host_tools

\* mutant of PrintError: the error is printed and raised again, which ends
\* chat_loop
PrintError_Reraise ==
    /\ shellPc = "query"
    /\ pc = "raised"
    /\ printed' = error
    /\ error' = "none"
    /\ pc' = "idle"
    /\ shellPc' = "cleanup"
    /\ UNCHANGED << provider, exit_stack, opens, closes, nQueries, leaving,
                    query, available_tools, messages, final_text, tool_results,
                    response, iter, iterResp, idx, tool_args, submits,
                    invoked, nRequested, nReturned, inflight >>
    /\ UNCHANGED first
    /\ UNCHANGED host_tools

\* chat_loop, lines 286-288: the error of the query is caught and printed;
\* the name e is unbound when the except clause ends
PrintError ==
    /\ shellPc = "query"
    /\ pc = "raised"
    /\ printed' = error
    /\ error' = "none"
    /\ pc' = "idle"
    /\ shellPc' = "input"
    /\ UNCHANGED << provider, exit_stack, opens, closes, nQueries, leaving,
                    query, available_tools, messages, final_text, tool_results,
                    response, iter, iterResp, idx, tool_args, submits,
                    invoked, inflight >>
    /\ UNCHANGED << nRequested, nReturned >>
    /\ UNCHANGED first
    /\ UNCHANGED host_tools

\* mutant of Cleanup: cleanup returns without closing the exit stack
Cleanup_NoClose ==
    /\ shellPc = "cleanup"
    /\ shellPc' = "exit"
    /\ UNCHANGED << provider, exit_stack, opens, closes, nQueries, printed,
                    leaving >>
    /\ UNCHANGED queryVars

\* main, lines 329-331 and cleanup, lines 290-296
Cleanup ==
    /\ shellPc = "cleanup"
    /\ closes' = IF exit_stack # <<>> THEN closes + 1 ELSE closes
    /\ exit_stack' = <<>>
    /\ shellPc' = "exit"
    /\ UNCHANGED << provider, opens, nQueries, printed, leaving >>
    /\ UNCHANGED queryVars

(* ---------------------------- process_query --------------------------- *)

\* mutant of SeedMessages: the conversation is kept across queries, as if it
\* were an attribute of the client
SeedMessages_Keep(q) == Append(messages, UserTurn(q))

\* the conversation a query starts from: lines 144-149 (A), 194-199 (B)
SeedMessages(q) == << UserTurn(q) >>

\* the first submit of a query: lines 151-156 (A), 201-206 (B)
FirstSubmit(msgs, tools) == SubmitRequest(msgs, TRUE, tools)

\* process_query, lines 118-140, and the start of the _process_* method up
\* to its first submit: lines 144-156 (A), 194-206 (B)
ListToolsReturns ==
    /\ pc = "list_tools"
    /\ \E tl \in HostToolLists :
         /\ host_tools' = tl
         /\ available_tools' = AdaptTools(tl, provider)
         /\ messages' = SeedMessages(query)
         /\ submits' = Append(submits, FirstSubmit(messages', available_tools'))
    /\ inflight' = Complete("list_tools") (+) SetToBag({"submit"})
    /\ pc' = "submit"
    /\ UNCHANGED shellVars
    /\ UNCHANGED << provider, query, final_text, tool_results, response, iter,
                    iterResp, idx, tool_args, invoked >>
    /\ UNCHANGED << nRequested, nReturned >>
    /\ UNCHANGED error
    /\ UNCHANGED first

\* the exception a failed external call raises
ErrorOf(call) ==
    IF call = "call_tool" THEN "ToolInvocationError"
    ELSE IF call = "submit" THEN "ProviderError"
    ELSE "TransportError"

\* an external call raises: list_tools (line 118), a submit (lines 151, 182,
\* 201, 250) or call_tool (lines 168, 232); nothing catches it in
\* process_query
Raise(call) ==
    /\ pc' = "raised"
    /\ error' = ErrorOf(call)
    /\ inflight' = Complete(call)
    /\ UNCHANGED shellVars
    /\ UNCHANGED << provider, query, available_tools, messages, final_text,
                    tool_results, response, iter, iterResp, idx, tool_args,
                    submits, invoked >>
    /\ UNCHANGED << nRequested, nReturned >>
    /\ UNCHANGED first
    /\ UNCHANGED host_tools

ListToolsFails == pc = "list_tools" /\ Raise("list_tools")

SubmitFails == pc = "submit" /\ Raise("submit")

ToolFails == pc = "tool" /\ Raise("call_tool")

(* ------------------ Variant A: _process_anthropic_query --------------- *)

\* the follow-up submit, lines 182-186: messages only, no tools= argument
AnthropicFollowUpSubmit(msgs, tools) == SubmitRequest(msgs, FALSE, <<>>)

\* lines 151-161: the first response arrives, the locals are initialised and
\* the for loop starts on response.content
AnthropicFirstResponse ==
    /\ provider = "anthropic"
    /\ pc = "submit"
    /\ Len(submits) = 1
    /\ \E r \in AnthropicResponses :
         /\ response' = r
         /\ iter' = r
         /\ first' = r
    /\ iterResp' = 1
    /\ idx' = 1
    /\ tool_results' = <<>>
    /\ final_text' = <<>>
    /\ inflight' = Complete("submit")
    /\ pc' = "loop"
    /\ UNCHANGED shellVars
    /\ UNCHANGED << provider, query, available_tools, messages, tool_args,
                    submits, invoked >>
    /\ UNCHANGED << nRequested, nReturned >>
    /\ UNCHANGED error
    /\ UNCHANGED host_tools

\* lines 162-163: a text block
AnthropicTextBlock ==
    /\ provider = "anthropic"
    /\ pc = "loop"
    /\ idx <= Len(iter)
    /\ iter[idx].type = "text"
    /\ final_text' = Append(final_text, <<iter[idx].text>>)
    /\ idx' = idx + 1
    /\ UNCHANGED shellVars
    /\ UNCHANGED << provider, pc, query, available_tools, messages,
                    tool_results, response, iter, iterResp, tool_args,
                    submits, invoked, inflight >>
    /\ UNCHANGED << nRequested, nReturned >>
    /\ UNCHANGED error
    /\ UNCHANGED first
    /\ UNCHANGED host_tools

\* lines 164-168: a tool_use block, call_tool is issued
AnthropicToolUse ==
    /\ provider = "anthropic"
    /\ pc = "loop"
    /\ idx <= Len(iter)
    /\ iter[idx].type = "tool_use"
    /\ tool_args' = iter[idx].input
    /\ invoked' = Append(invoked, Invocation(iter[idx].name, iter[idx].input))
    /\ inflight' = Issue("call_tool")
    /\ pc' = "tool"
    /\ UNCHANGED shellVars
    /\ UNCHANGED << provider, query, available_tools, messages, final_text,
                    tool_results, response, iter, iterResp, idx, submits >>
    /\ UNCHANGED << nRequested, nReturned >>
    /\ UNCHANGED error
    /\ UNCHANGED first
    /\ UNCHANGED host_tools

\* lines 168-186: call_tool returns, the result is recorded and folded into
\* the conversation, and the follow-up submit is issued
AnthropicToolReturns ==
    /\ provider = "anthropic"
    /\ pc = "tool"
    /\ \E result \in ToolResults :
         /\ tool_results' = Append(tool_results,
                                   [call |-> iter[idx].name, result |-> result])
         /\ messages' = AnthropicAppendToolResult(messages, iter[idx], result)
    /\ final_text' = Append(final_text,
                            AnthropicCallSegment(iter[idx].name, tool_args))
    /\ submits' = Append(submits,
                         AnthropicFollowUpSubmit(messages', available_tools))
    /\ inflight' = Complete("call_tool") (+) SetToBag({"submit"})
    /\ pc' = "submit"
    /\ UNCHANGED shellVars
    /\ UNCHANGED << provider, query, available_tools, response, iter,
                    iterResp, idx, tool_args, invoked >>
    /\ nReturned' = nReturned + 1
    /\ UNCHANGED nRequested
    /\ UNCHANGED error
    /\ UNCHANGED first
    /\ UNCHANGED host_tools

\* response.content[0].text can be evaluated (line 188)
FirstBlockHasText(r) == r # <<>> /\ r[1].text # NoAttr

\* lines 182-188: the response to a follow-up submit arrives; `response` is
\* rebound, the for loop goes on over the content it started on.
\* response.content[0].text raises IndexError on an empty content and
\* AttributeError on a block without text.
AnthropicLaterResponse ==
    /\ provider = "anthropic"
    /\ pc = "submit"
    /\ Len(submits) > 1
    /\ \E r \in AnthropicResponses :
         /\ response' = r
         /\ IF FirstBlockHasText(r)
            THEN /\ final_text' = Append(final_text, <<r[1].text>>)
                 /\ idx' = idx + 1
                 /\ pc' = "loop"
                 /\ UNCHANGED error
            ELSE /\ pc' = "raised"
                 /\ error' = IF r = <<>> THEN "IndexError" ELSE "AttributeError"
                 /\ UNCHANGED << final_text, idx >>
    /\ inflight' = Complete("submit")
    /\ UNCHANGED shellVars
    /\ UNCHANGED << provider, query, available_tools, messages, tool_results,
                    iter, iterResp, tool_args, submits, invoked >>
    /\ UNCHANGED << nRequested, nReturned >>
    /\ UNCHANGED first
    /\ UNCHANGED host_tools

\* line 190: the for loop is over
AnthropicReturn ==
    /\ provider = "anthropic"
    /\ pc = "loop"
    /\ idx > Len(iter)
    /\ pc' = "returned"
    /\ UNCHANGED shellVars
    /\ UNCHANGED << provider, query, available_tools, messages, final_text,
                    tool_results, response, iter, iterResp, idx, tool_args,
                    submits, invoked, inflight >>
    /\ UNCHANGED << nRequested, nReturned >>
    /\ UNCHANGED error
    /\ UNCHANGED first
    /\ UNCHANGED host_tools

(* ------------------- Variant B: _process_openai_query ----------------- *)

\* what the model may answer after it has sent n tool-call entries
OpenAIAnswers(n) ==
    { m \in OpenAIMessages : n + Len(m.tool_calls) <= MaxToolCalls }

\* lines 201-215 and 250-259: a response arrives; after the first one the
\* locals are initialised; the message text goes to the transcript
OpenAIResponse ==
    /\ provider = "openai"
    /\ pc = "submit"
    /\ \E m \in OpenAIAnswers(nRequested) :
         /\ response' = m
         /\ first' = IF Len(submits) = 1 THEN m ELSE first
         /\ nRequested' = nRequested + Len(m.tool_calls)
         /\ iter' = m.tool_calls
         /\ LET ft == IF Len(submits) = 1 THEN <<>> ELSE final_text
            IN  final_text' =
                  IF TruthyStr(m.content)
                  THEN Append(ft, format_message("assistant", <<m.content>>, FALSE))
                  ELSE ft
    /\ tool_results' = IF Len(submits) = 1 THEN <<>> ELSE tool_results
    /\ iterResp' = Len(submits)
    /\ idx' = 1
    /\ inflight' = Complete("submit")
    /\ pc' = "loop"
    /\ UNCHANGED nReturned
    /\ UNCHANGED shellVars
    /\ UNCHANGED << provider, query, available_tools, messages, tool_args,
                    submits, invoked >>
    /\ UNCHANGED error
    /\ UNCHANGED host_tools

\* mutant of OpenAIDecodeFails: the diagnostic is added and the for loop is
\* left (break instead of continue)
OpenAIDecodeFails_Break ==
    /\ provider = "openai"
    /\ pc = "loop"
    /\ idx <= Len(iter)
    /\ ~json_loads(iter[idx].arguments).ok
    /\ final_text' = Append(final_text, DecodeErrorSegment(iter[idx]))
    /\ idx' = Len(iter) + 1
    /\ UNCHANGED shellVars
    /\ UNCHANGED << provider, pc, error, query, available_tools, messages,
                    tool_results, response, iter, iterResp, tool_args,
                    submits, invoked, nRequested, nReturned, inflight >>
    /\ UNCHANGED first
    /\ UNCHANGED host_tools

\* mutant of OpenAIDecodeFails: the assistant turn of the message is added to
\* the conversation although the call is skipped
OpenAIDecodeFails_AddsTurn ==
    /\ provider = "openai"
    /\ pc = "loop"
    /\ idx <= Len(iter)
    /\ ~json_loads(iter[idx].arguments).ok
    /\ final_text' = Append(final_text, DecodeErrorSegment(iter[idx]))
    /\ idx' = idx + 1
    /\ UNCHANGED shellVars
    /\ messages' = Append(messages, Turn("assistant", response.content,
                                       response.tool_calls, ""))
    /\ UNCHANGED << provider, pc, query, available_tools,
                    tool_results, response, iter, iterResp, tool_args,
                    submits, invoked, inflight >>
    /\ UNCHANGED << nRequested, nReturned >>
    /\ UNCHANGED error
    /\ UNCHANGED first
    /\ UNCHANGED host_tools

\* lines 217-223: the arguments fail to decode
OpenAIDecodeFails ==
    /\ provider = "openai"
    /\ pc = "loop"
    /\ idx <= Len(iter)
    /\ ~json_loads(iter[idx].arguments).ok
    /\ final_text' = Append(final_text, DecodeErrorSegment(iter[idx]))
    /\ idx' = idx + 1
    /\ UNCHANGED shellVars
    /\ UNCHANGED << provider, pc, query, available_tools, messages,
                    tool_results, response, iter, iterResp, tool_args,
                    submits, invoked, inflight >>
    /\ UNCHANGED << nRequested, nReturned >>
    /\ UNCHANGED error
    /\ UNCHANGED first
    /\ UNCHANGED host_tools

\* mutant of OpenAIInvoke: call_tool is started and not awaited, the loop goes
\* on with the next call
OpenAIInvoke_NoAwait ==
    /\ provider = "openai"
    /\ pc = "loop"
    /\ idx <= Len(iter)
    /\ json_loads(iter[idx].arguments).ok
    /\ tool_args' = json_loads(iter[idx].arguments).value
    /\ final_text' = Append(final_text,
                            OpenAICallSegment(iter[idx].name, tool_args'))
    /\ invoked' = Append(invoked, Invocation(iter[idx].name, tool_args'))
    /\ inflight' = Issue("call_tool")
    /\ idx' = idx + 1
    /\ UNCHANGED shellVars
    /\ UNCHANGED << provider, pc, error, query, available_tools, messages,
                    tool_results, response, iter, iterResp, submits,
                    nRequested, nReturned >>
    /\ UNCHANGED first
    /\ UNCHANGED host_tools

\* lines 217-232: the arguments decode, the call is annotated and call_tool
\* is issued
OpenAIInvoke ==
    /\ provider = "openai"
    /\ pc = "loop"
    /\ idx <= Len(iter)
    /\ json_loads(iter[idx].arguments).ok
    /\ tool_args' = json_loads(iter[idx].arguments).value
    /\ final_text' = Append(final_text,
                            OpenAICallSegment(iter[idx].name, tool_args'))
    /\ invoked' = Append(invoked, Invocation(iter[idx].name, tool_args'))
    /\ inflight' = Issue("call_tool")
    /\ pc' = "tool"
    /\ UNCHANGED shellVars
    /\ UNCHANGED << provider, query, available_tools, messages, tool_results,
                    response, iter, iterResp, idx, submits >>
    /\ UNCHANGED << nRequested, nReturned >>
    /\ UNCHANGED error
    /\ UNCHANGED first
    /\ UNCHANGED host_tools

\* mutant of OpenAIToolReturns: the result is folded into the conversation
\* and not annotated in the transcript
OpenAIToolReturns_NoAnnotation ==
    /\ provider = "openai"
    /\ pc = "tool"
    /\ \E result \in ToolResults :
         /\ tool_results' = Append(tool_results,
                                   [call |-> iter[idx].name, result |-> result])
         /\ final_text' = final_text
         /\ messages' = OpenAIAppendToolResult(messages, response, iter[idx],
                                               result)
    /\ idx' = idx + 1
    /\ inflight' = Complete("call_tool")
    /\ pc' = "loop"
    /\ UNCHANGED shellVars
    /\ UNCHANGED << provider, query, available_tools, response, iter,
                    iterResp, tool_args, submits, invoked >>
    /\ nReturned' = nReturned + 1
    /\ UNCHANGED nRequested
    /\ UNCHANGED error
    /\ UNCHANGED first
    /\ UNCHANGED host_tools

\* lines 232-248: call_tool returns, the result is recorded, annotated and
\* folded into the conversation
OpenAIToolReturns ==
    /\ provider = "openai"
    /\ pc = "tool"
    /\ \E result \in ToolResults :
         /\ tool_results' = Append(tool_results,
                                   [call |-> iter[idx].name, result |-> result])
         /\ final_text' = Append(final_text, OpenAIResultSegment(result))
         /\ messages' = OpenAIAppendToolResult(messages, response, iter[idx],
                                               result)
    /\ idx' = idx + 1
    /\ inflight' = Complete("call_tool")
    /\ pc' = "loop"
    /\ UNCHANGED shellVars
    /\ UNCHANGED << provider, query, available_tools, response, iter,
                    iterResp, tool_args, submits, invoked >>
    /\ nReturned' = nReturned + 1
    /\ UNCHANGED nRequested
    /\ UNCHANGED error
    /\ UNCHANGED first
    /\ UNCHANGED host_tools

\* the submit after a batch, lines 250-255
OpenAIFollowUpSubmit(msgs, tools) == SubmitRequest(msgs, TRUE, tools)

\* lines 250-255: the batch is over, the next submit is issued
OpenAINextSubmit ==
    /\ provider = "openai"
    /\ pc = "loop"
    /\ idx > Len(iter)
    /\ response.tool_calls # <<>>
    /\ submits' = Append(submits, OpenAIFollowUpSubmit(messages, available_tools))
    /\ inflight' = Issue("submit")
    /\ pc' = "submit"
    /\ UNCHANGED shellVars
    /\ UNCHANGED << provider, query, available_tools, messages, final_text,
                    tool_results, response, iter, iterResp, idx, tool_args,
                    invoked >>
    /\ UNCHANGED << nRequested, nReturned >>
    /\ UNCHANGED error
    /\ UNCHANGED first
    /\ UNCHANGED host_tools

\* lines 215 and 261: the message has no tool calls
OpenAIReturn ==
    /\ provider = "openai"
    /\ pc = "loop"
    /\ response.tool_calls = <<>>
    /\ pc' = "returned"
    /\ UNCHANGED shellVars
    /\ UNCHANGED << provider, query, available_tools, messages, final_text,
                    tool_results, response, iter, iterResp, idx, tool_args,
                    submits, invoked, inflight >>
    /\ UNCHANGED << nRequested, nReturned >>
    /\ UNCHANGED error
    /\ UNCHANGED first
    /\ UNCHANGED host_tools

\* the value process_query returns: line 190 (A), line 261 (B)
Transcript ==
    IF provider = "anthropic" THEN Join(<<"\n">>, final_text)
    ELSE Join(<<>>, final_text)

(* ---------------------------- specification --------------------------- *)

Next ==
    \/ ConnectToServer
    \/ ReadQuery
    \/ Quit
    \/ Interrupt
    \/ PrintResponse
    \/ PrintError
    \/ Cleanup
    \/ ListToolsReturns
    \/ ListToolsFails
    \/ SubmitFails
    \/ ToolFails
    \/ AnthropicFirstResponse
    \/ AnthropicTextBlock
    \/ AnthropicToolUse
    \/ AnthropicToolReturns
    \/ AnthropicLaterResponse
    \/ AnthropicReturn
    \/ OpenAIResponse
    \/ OpenAIDecodeFails
    \/ OpenAIInvoke
    \/ OpenAIToolReturns
    \/ OpenAINextSubmit
    \/ OpenAIReturn

Spec == Init /\ [][Next]_vars

(* ------------------------- notions of the claims ---------------------- *)

\* process_query is running and has seeded the conversation
InQuery == shellPc = "query" /\ submits # <<>>

\* a submit other than the first one of the query has just been issued
AtFollowUpSubmit == shellPc = "query" /\ pc = "submit" /\ Len(submits) >= 2

\* the turns the conversation gained since the previous submit
NewTurns ==
    LET prev == submits[Len(submits) - 1].messages
    IN  SubSeq(messages, Len(prev) + 1, Len(messages))

\* a turn that carries a tool result: a tool-role turn in Variant B, a user
\* turn other than the seed in Variant A
IsResultTurn(msgs, k) ==
    IF provider = "openai" THEN msgs[k].role = "tool"
    ELSE msgs[k].role = "user" /\ k > 1

ResultTurns(msgs) == { k \in 1..Len(msgs) : IsResultTurn(msgs, k) }

\* the tool-call requests a response carries
NumRequests(r) ==
    IF provider = "openai" THEN Len(r.tool_calls)
    ELSE Cardinality({ k \in 1..Len(r) : r[k].type = "tool_use" })

ToolTurnIds(turns) ==
    LET tt == SelectSeq(turns, LAMBDA t : t.role = "tool")
    IN  [k \in 1..Len(tt) |-> tt[k].tool_call_id]

RequestIds(message) ==
    [k \in 1..Len(message.tool_calls) |-> message.tool_calls[k].id]

Decodable(call) == json_loads(call.arguments).ok

(* -------------------------------- claims ------------------------------ *)

\* C1: when a follow-up submit is issued, every tool-call request of the
\* response received last has exactly one tool-result turn among the turns
\* added since the previous submit, in request order (Variant B: one
\* tool-role turn per call id after an assistant turn carrying the message;
\* Variant A, where results are matched by position: at least as many
\* result turns as tool-use blocks).  Stated as claimed; the code violates
\* it.
C1_EveryRequestHasOneResult ==
    AtFollowUpSubmit =>
        IF provider = "openai"
        THEN /\ ToolTurnIds(NewTurns) = RequestIds(response)
             /\ NewTurns # <<>>
             /\ NewTurns[1].role = "assistant"
             /\ NewTurns[1].tool_calls = response.tool_calls
        ELSE Cardinality({ k \in 1..Len(NewTurns) : NewTurns[k].role = "user" })
               >= NumRequests(response)

\* C2: at every point of a query the number of tool-result turns in the
\* conversation equals the number of tool invocations that returned, which
\* is also the number of entries of tool_results once it is initialised.
C2_ResultTurnsMatchReturnedCalls ==
    InQuery =>
        /\ Cardinality(ResultTurns(messages)) = nReturned
        /\ (iterResp >= 1 => Len(tool_results) = nReturned)
        /\ nReturned <= Len(invoked)
        /\ Len(invoked) <= nReturned + 1

\* C2 witness: two invocations have returned and a third call is in flight
\* or was skipped
C2_Witness ==
    /\ InQuery
    /\ nReturned = 2
    /\ Cardinality(ResultTurns(messages)) = 2

\* C3: in Variant B, after a batch of n >= 1 decodable tool calls the
\* conversation has gained exactly one assistant turn carrying the message
\* followed by n tool-role turns, one per call id in batch order with that
\* call's result.  Stated as claimed; the code violates it.
C3_OneAssistantTurnPerBatch ==
    ( /\ AtFollowUpSubmit
      /\ provider = "openai"
      /\ \A k \in 1..Len(response.tool_calls) : Decodable(response.tool_calls[k]) )
    =>
        LET n == Len(response.tool_calls)
            res == SubSeq(tool_results, Len(tool_results) - n + 1,
                          Len(tool_results))
        IN  NewTurns =
              << Turn("assistant", response.content, response.tool_calls, "") >>
              \o [k \in 1..n |->
                    Turn("tool", res[k].result, <<>>, response.tool_calls[k].id)]

\* Variant B is about to decode the arguments of a malformed call
DecodeFailing ==
    /\ provider = "openai"
    /\ shellPc = "query"
    /\ pc = "loop"
    /\ idx <= Len(iter)
    /\ ~Decodable(iter[idx])

\* a transcript segment that is the diagnostic of a decode failure
IsDiagnostic(seg) ==
    /\ Len(seg) >= 5
    /\ seg[3] = " User]"
    /\ seg[5] = "decode error: "

\* positions of the decodable calls of the current batch before position i
DecodableBefore(i) ==
    SelectSeq([k \in 1..Len(iter) |-> k],
              LAMBDA k : k < i /\ Decodable(iter[k]))

\* the invocations issued for the current batch
BatchInvocations == SelectSeq(invoked, LAMBDA v : v.resp = iterResp)

\* Variant B: the calls invoked for the current batch are the decodable
\* calls up to the loop position, in batch order, with the decoded arguments
BatchInOrder ==
    (provider = "openai" /\ InQuery /\ iterResp >= 1) =>
        LET mine == BatchInvocations
            idxs == [k \in 1..Len(mine) |-> mine[k].idx]
            done == DecodableBefore(idx)
        IN  /\ IF pc = "tool" THEN idxs = Append(done, idx)
               ELSE IF pc = "raised" THEN idxs \in {done, Append(done, idx)}
               ELSE idxs = done
            /\ \A k \in 1..Len(mine) :
                 mine[k].args = json_loads(iter[mine[k].idx].arguments).value

C4_Step ==
    /\ DecodeFailing =>
         /\ Len(final_text') = Len(final_text) + 1
         /\ SubSeq(final_text', 1, Len(final_text)) = final_text
         /\ IsDiagnostic(final_text'[Len(final_text')])
         /\ invoked' = invoked
         /\ inflight' = inflight
         /\ messages' = messages
         /\ pc' = "loop"
         /\ iter' = iter
         /\ idx' = idx + 1
    /\ BatchInOrder'

\* C4: in Variant B a call whose argument string fails to decode adds
\* exactly one diagnostic segment to the transcript, is not invoked, raises
\* nothing, and the loop goes on with the next call of the batch: the calls
\* invoked for a batch are its decodable calls, in batch order.
C4_DecodeFailureSkipsOnlyThatCall == [][C4_Step]_vars

\* C4 witness: the first call of a batch was malformed and the second call
\* of the same batch is being invoked
C4_Witness ==
    /\ provider = "openai"
    /\ shellPc = "query"
    /\ pc = "tool"
    /\ idx = 2
    /\ ~Decodable(iter[1])
    /\ Len(BatchInvocations) = 1
    /\ \E k \in 1..Len(final_text) : IsDiagnostic(final_text[k])

\* C5: process_query returns only when the response received last carried
\* no tool calls.  Stated as claimed; Variant A violates it.
C5_ReturnsOnlyAfterToolFreeResponse ==
    (shellPc = "query" /\ pc = "returned") => NumRequests(response) = 0

\* C6: in Variant A every tool invocation is taken from the response to the
\* most recent submit, and no response has two of its tool calls invoked.
\* Stated as claimed; the code violates it.
C6_OneInvocationPerResponse ==
    (provider = "anthropic" /\ InQuery) =>
        /\ \A k \in 1..Len(invoked) : invoked[k].after = invoked[k].resp
        /\ \A j, k \in 1..Len(invoked) :
             j # k => invoked[j].resp # invoked[k].resp

\* C7: every submit of a query sends the conversation as it is at that
\* time together with the adapted tool list of the query.  Stated as
\* claimed; Variant A violates it.
C7_EverySubmitSendsConversationAndTools ==
    InQuery =>
        /\ \A k \in 1..Len(submits) :
             /\ submits[k].has_tools
             /\ submits[k].tools = available_tools
        /\ (pc = "submit" => submits[Len(submits)].messages = messages)

C8_Step ==
    /\ (shellPc = "query" /\ pc = "tool" /\ pc' = "raised") =>
         /\ error' = "ToolInvocationError"
         /\ messages' = messages
         /\ tool_results' = tool_results
         /\ submits' = submits
         /\ invoked' = invoked
         /\ BagCardinality(inflight') = 0
    /\ (shellPc = "query" /\ pc = "raised") =>
         /\ shellPc' = "input"
         /\ pc' = "idle"
         /\ printed' = error
         /\ messages' = messages
         /\ submits' = submits
         /\ invoked' = invoked
         /\ inflight' = inflight
    /\ (shellPc = "query" => shellPc' \in {"query", "input"})

\* C8: a failure of the tool host during an invocation ends process_query
\* with that error: the conversation gets no error result and no further
\* submit or invocation is issued for the query; chat_loop prints the error
\* and goes back to reading input; a query never ends the session.
C8_ToolFailureEndsQueryNotSession == [][C8_Step]_vars

\* C8 witness: after a query that ended with a tool failure, a later query
\* of the same session has been processed to its end
C8_Witness ==
    /\ printed = "ToolInvocationError"
    /\ nQueries = 2
    /\ shellPc = "query"
    /\ pc = "returned"

C9_Step ==
    /\ (shellPc' = "query" /\ pc' = "submit" /\ Len(submits') = 1) =>
         /\ messages' = << Turn("user", query', <<>>, "") >>
         /\ submits'[1].messages = messages'
         /\ invoked' = <<>>
    /\ (shellPc = "query" /\ pc = "submit" /\ Len(submits) = 1
        /\ pc' = "loop") =>
         /\ tool_results' = <<>>
         /\ \/ final_text' = <<>>
            \/ /\ provider = "openai"
               /\ TruthyStr(response'.content)
               /\ final_text' =
                    << format_message("assistant", <<response'.content>>, FALSE) >>

\* C9: every query starts from a conversation of exactly one user turn with
\* that query, which is what its first submit sends, and from an empty
\* transcript and an empty tool_results: after the first response they hold
\* nothing but that response's text, whatever an earlier query left behind.
C9_QueryStartsFresh == [][C9_Step]_vars

\* C9 witness: the second query of a session is at its first submit with a
\* fresh conversation while the locals of the first query, which invoked a
\* tool, are still around
C9_Witness ==
    /\ nQueries = 2
    /\ shellPc = "query"
    /\ pc = "submit"
    /\ Len(submits) = 1
    /\ messages = << Turn("user", query, <<>>, "") >>
    /\ tool_results # <<>>
    /\ final_text # <<>>

\* C10: at most one external call is in flight at any time, and while a
\* tool call is in flight every earlier invocation of the query has
\* returned and its result is recorded; the invocations of one batch follow
\* the batch order.
C10_OneCallInFlightInOrder ==
    /\ BagCardinality(inflight) <= 1
    /\ (shellPc = "query" /\ pc = "tool") =>
         /\ BagToSet(inflight) = {"call_tool"}
         /\ nReturned = Len(invoked) - 1
         /\ Len(tool_results) = nReturned
         /\ Cardinality(ResultTurns(messages)) = nReturned
    /\ (shellPc = "query" /\ pc = "submit") => BagToSet(inflight) = {"submit"}
    /\ (shellPc = "query" /\ pc = "list_tools") =>
         BagToSet(inflight) = {"list_tools"}
    /\ InQuery =>
         \A j, k \in 1..Len(invoked) :
           (j < k /\ invoked[j].resp = invoked[k].resp) =>
              invoked[j].idx < invoked[k].idx

\* C10 witness: the second call of a batch is in flight after the first one
\* has returned
C10_Witness ==
    /\ shellPc = "query"
    /\ pc = "tool"
    /\ Len(invoked) = 2
    /\ invoked[1].resp = invoked[2].resp
    /\ nReturned = 1
    /\ BagCardinality(inflight) = 1

\* main has left its try block and the release has started or is done
Leaving == shellPc \in {"cleanup", "exit"}

C11_Step ==
    /\ opens' <= 1
    /\ closes' <= opens'
    /\ (exit_stack' # <<>>) = (opens' = 1 /\ closes' = 0)
    /\ shellPc' = "exit" => (closes' = opens' /\ exit_stack' = <<>>)
    /\ shellPc' # "exit" => closes' = 0
    /\ Leaving' => (pc' = "idle" /\ leaving' # "")
    /\ Leaving =>
         /\ Leaving'
         /\ nQueries' = nQueries
         /\ opens' = opens
         /\ submits' = submits
         /\ invoked' = invoked
    /\ shellPc = "exit" => UNCHANGED vars

\* C11: the channel to the tool host is opened at most once; however main
\* leaves its try block ('quit', a failure in connect_to_server, an error
\* escaping chat_loop) cleanup runs once and releases the channel exactly
\* once if it was opened (there is nothing to release when the failure came
\* before the channel was opened); once the release has started no query is
\* read or processed.
C11_OpenedOnceReleasedOnce == [][C11_Step]_vars

\* C11 witness: a session that processed a query and was left by an error
\* escaping chat_loop has released its channel
C11_Witness ==
    /\ shellPc = "exit"
    /\ leaving = "escaped"
    /\ nQueries >= 1
    /\ opens = 1
    /\ closes = 1
    /\ exit_stack = <<>>

(* ------------------------------- C12 ---------------------------------- *)

\* the first response of the query has arrived and is a single text reply
\* without tool calls
SingleTextFirst ==
    /\ shellPc = "query"
    /\ Len(submits) = 1
    /\ pc \in {"loop", "returned"}
    /\ IF provider = "anthropic"
       THEN Len(iter) = 1 /\ iter[1].type = "text"
       ELSE response.tool_calls = <<>> /\ TruthyStr(response.content)

\* the text of that reply
FirstReplyText ==
    IF provider = "anthropic" THEN iter[1].text ELSE response.content

\* what process_query returns for it: the text itself in Variant A, the text
\* as a stamped "AI" line in Variant B
ReplyAsReturned ==
    IF provider = "anthropic" THEN <<FirstReplyText>>
    ELSE <<"[", timestamp, " AI]", " ", FirstReplyText, "\n">>

\* after a single text reply nothing is submitted or invoked any more and
\* the query returns `expect`
C12_StepFor(expect) ==
    SingleTextFirst =>
      /\ invoked = <<>>
      /\ inflight = EmptyBag
      /\ pc = "loop" =>
           /\ pc' \in {"loop", "returned"}
           /\ submits' = submits
           /\ invoked' = <<>>
           /\ inflight' = EmptyBag
           /\ pc' = "returned" => Transcript' = expect

\* C12 as stated: in either variant, when the first response is a single text
\* reply without tool calls, process_query issues exactly one submit and no
\* tool invocation, and the returned transcript equals that text reply.
C12_TranscriptEqualsReply == [][C12_StepFor(<<FirstReplyText>>)]_vars

\* C12 amended: in either variant, when the first response is a single text
\* reply without tool calls, process_query issues exactly one submit and no
\* tool invocation; the returned transcript is that text in Variant A and
\* the line "[HH:MM:SS AI] <text>\n" in Variant B.
C12_SingleReplyOneSubmit == [][C12_StepFor(ReplyAsReturned)]_vars

\* C12 witness: Variant B has returned the stamped line for the reply "4"
\* to a query with no tool available
C12_Witness ==
    /\ provider = "openai"
    /\ pc = "returned"
    /\ SingleTextFirst
    /\ available_tools = <<>>
    /\ Len(submits) = 1
    /\ invoked = <<>>
    /\ Transcript = <<"[", "HH:MM:SS", " AI]", " ", "4", "\n">>

(* ------------------------------- C13 ---------------------------------- *)

\* the one tool call the first response requested
FirstCall ==
    IF provider = "anthropic"
    THEN first[CHOOSE k \in 1..Len(first) : first[k].type = "tool_use"]
    ELSE first.tool_calls[1]

\* the response received last is a final text: it has text and no tool call
LastIsFinalText ==
    IF provider = "anthropic"
    THEN response # <<>> /\ \A k \in 1..Len(response) : response[k].type = "text"
    ELSE response.tool_calls = <<>> /\ TruthyStr(response.content)

\* process_query has returned; the first response requested exactly one tool
\* call, and the response to the second submit, which no tool request
\* followed, was a final text
OneCallThenFinalText ==
    /\ shellPc = "query"
    /\ pc = "returned"
    /\ NumRequests(first) = 1
    /\ provider = "openai" => nRequested = 1
    /\ LastIsFinalText

\* the three transcript segments of the scenario
CallAnnotation ==
    IF provider = "anthropic"
    THEN AnthropicCallSegment(FirstCall.name, FirstCall.input)
    ELSE OpenAICallSegment(FirstCall.name, json_loads(FirstCall.arguments).value)

ResultAnnotation == OpenAIResultSegment(tool_results[1].result)

FinalTextSegment ==
    IF provider = "anthropic" THEN <<response[1].text>>
    ELSE format_message("assistant", <<response.content>>, FALSE)

\* a segment that shows the result of the call
ShowsResult(seg) ==
    \E p \in 1..Len(seg) : seg[p] = tool_results[1].result

OneCallScenario ==
    /\ Len(submits) = 2
    /\ Len(invoked) = 1
    /\ nReturned = 1
    /\ tool_results # <<>>
    /\ IF provider = "anthropic"
       THEN /\ \E i, k \in 1..Len(final_text) :
                 /\ i < k
                 /\ final_text[i] = CallAnnotation
                 /\ final_text[k] = FinalTextSegment
            /\ \A j \in 1..Len(final_text) : ~ShowsResult(final_text[j])
       ELSE \E i, j, k \in 1..Len(final_text) :
                 /\ i < j /\ j < k
                 /\ final_text[i] = CallAnnotation
                 /\ final_text[j] = ResultAnnotation
                 /\ final_text[k] = FinalTextSegment

\* C13 as stated: for a query whose first response requests exactly one tool
\* call and whose second response is a final text, the transcript contains,
\* in this order, the invocation annotation of the call, a result annotation
\* (Variant B only, none in Variant A) and an assistant text segment taken
\* from the second response; exactly two submits and one invocation happen.
C13_OneCallThenAnswer == OneCallThenFinalText => OneCallScenario

\* C13 amended: the same, for a tool call whose arguments decode (a call of
\* Variant B whose arguments fail to decode is not invoked: the transcript
\* holds a diagnostic in place of the two annotations).
C13_OneDecodableCallThenAnswer ==
    (/\ OneCallThenFinalText
     /\ provider = "openai" => Decodable(FirstCall))
    => OneCallScenario

\* C13 witness: Variant B has answered after one call of add that returned
\* {"result": 4}
C13_Witness ==
    /\ provider = "openai"
    /\ OneCallThenFinalText
    /\ Decodable(FirstCall)
    /\ Len(submits) = 2
    /\ Len(invoked) = 1
    /\ tool_results[1].result = "{\"result\": 4}"
    /\ final_text = <<CallAnnotation, ResultAnnotation, FinalTextSegment>>

(* ------------------------------- C14 ---------------------------------- *)

\* at most two responses were received in this query and each of them
\* requested a tool call
EveryResponseRequestedATool ==
    /\ Len(submits) <= 2
    /\ NumRequests(first) >= 1
    /\ Len(submits) = 2 => NumRequests(response) >= 1

\* C14: no bound on the iterations is enforced; with either variant, as long
\* as every response of the model requests a tool call process_query submits
\* again after each batch and does not return.
C14_NoReturnWhileToolsRequested ==
    (shellPc = "query" /\ pc = "returned") => ~EveryResponseRequestedATool

(* ------------------------------- C15 ---------------------------------- *)

\* the texts a response of Variant A carries
ResponseTexts(r) ==
    { r[k].text : k \in { j \in 1..Len(r) : r[j].text \notin {NoAttr, ""} } }

\* C15: in Variant A, for every tool call invoked the conversation gains
\* first an assistant turn carrying the text the model interleaved with the
\* call (whenever the response had such text) and then a user turn carrying
\* the raw tool result, and the next submit sends them in that order.
C15_AssistantTextThenResult ==
    (provider = "anthropic" /\ AtFollowUpSubmit) =>
      LET nt == NewTurns
          result == tool_results[Len(tool_results)].result
      IN  /\ nt # <<>>
          /\ nt[Len(nt)] = Turn("user", result, <<>>, "")
          /\ submits[Len(submits)].messages = messages
          /\ IF ResponseTexts(iter) # {}
             THEN /\ Len(nt) = 2
                  /\ nt[1].role = "assistant"
                  /\ nt[1].content \in ResponseTexts(iter)
             ELSE Len(nt) = 1

(* ------------------------------- C16 ---------------------------------- *)

\* C16: adapting is a pure transform of the host's descriptors: the tool list
\* of a query is a function of the host's list and the provider alone (the
\* same descriptors give the same entries, in every query), it has one entry
\* per descriptor in host order, flat {name, description, parameters} in
\* Variant A and wrapped {type: "function", function: {name, description,
\* parameters}} in Variant B, with the schema passed through unchanged.
C16_AdaptIsPureShapePreserving ==
    InQuery =>
      /\ Len(available_tools) = Len(host_tools)
      /\ \A i \in 1..Len(host_tools) :
           LET flat == [name        |-> host_tools[i].name,
                        description |-> host_tools[i].description,
                        parameters  |-> host_tools[i].inputSchema]
           IN  available_tools[i] =
                 IF provider = "anthropic" THEN flat
                 ELSE [type |-> "function", function |-> flat]
      /\ submits[1].tools = available_tools

\* C16 witness: the two descriptors of the host were adapted for Variant B
\* in a second query
C16_Witness ==
    /\ InQuery
    /\ provider = "openai"
    /\ nQueries = 2
    /\ Len(host_tools) = 2
    /\ available_tools[1].function.name = "add"
    /\ available_tools[2].function.parameters = "schema_sub"

(* ------------------------------- C17 ---------------------------------- *)

\* the text segments a response carries, in order
TextSegments(r) ==
    IF provider = "anthropic"
    THEN LET tb == SelectSeq(r, LAMBDA b : b.type = "text")
         IN  [k \in 1..Len(tb) |-> tb[k].text]
    ELSE IF TruthyStr(r.content) THEN <<r.content>> ELSE <<>>

\* the text segments received in a query of at most two responses
ReceivedTexts ==
    TextSegments(first) \o
    (IF Len(submits) = 2 THEN TextSegments(response) ELSE <<>>)

\* the model texts of the transcript, in order: the segments that are not
\* annotations or diagnostics
TranscriptTexts ==
    IF provider = "anthropic"
    THEN LET ts == SelectSeq(final_text, LAMBDA seg : Len(seg) = 1)
         IN  [k \in 1..Len(ts) |-> ts[k][1]]
    ELSE LET ts == SelectSeq(final_text, LAMBDA seg : seg[3] = " AI]")
         IN  [k \in 1..Len(ts) |-> ts[k][5]]

\* a is b with some elements left out
RECURSIVE IsSubsequence(_, _)
IsSubsequence(a, b) ==
    IF a = <<>> THEN TRUE
    ELSE IF b = <<>> THEN FALSE
    ELSE IF a[1] = b[1] THEN IsSubsequence(Tail(a), Tail(b))
    ELSE IsSubsequence(a, Tail(b))

\* C17: every text segment of every response received during a query is
\* appended to the transcript, in the order received, and a returned
\* transcript contains them all (stated for the queries that received at
\* most two responses, whose responses are both at hand on return).
C17_EveryTextSegmentInTranscript ==
    (shellPc = "query" /\ pc = "returned" /\ Len(submits) <= 2) =>
      /\ IsSubsequence(ReceivedTexts, TranscriptTexts)
      /\ Len(TranscriptTexts) >= Len(ReceivedTexts)

(* ------------------------------- C18 ---------------------------------- *)

\* process_query of Variant A is over and every external call it issued has
\* returned: it returned, or it raised on its own (line 188)
EndedWithAllCallsReturned ==
    /\ provider = "anthropic"
    /\ shellPc = "query"
    /\ \/ pc = "returned"
       \/ pc = "raised" /\ error \in {"IndexError", "AttributeError"}

\* the invocations are those of the tool-use blocks of the first response
OnlyFirstResponseInvoked ==
    \A i \in 1..Len(invoked) :
      /\ invoked[i].resp = 1
      /\ first[invoked[i].idx].type = "tool_use"
      /\ invoked[i].name = first[invoked[i].idx].name

\* C18: in Variant A process_query terminates when every external call
\* returns; with k tool-use blocks in the first response it has then issued
\* exactly 1 + k submits and exactly k tool invocations, all for blocks of the
\* first response: tool calls of later responses are never invoked.
C18_OneSubmitPerFirstResponseCall ==
    EndedWithAllCallsReturned =>
      /\ Len(submits) = 1 + NumRequests(first)
      /\ Len(invoked) = NumRequests(first)
      /\ OnlyFirstResponseInvoked

(* ------------------------------- C19 ---------------------------------- *)

\* Variant B is processing a batch none of whose calls decodes
AllCallsFailToDecode ==
    /\ provider = "openai"
    /\ shellPc = "query"
    /\ pc = "loop"
    /\ response.tool_calls # <<>>
    /\ \A i \in 1..Len(response.tool_calls) : ~Decodable(response.tool_calls[i])

\* the last n segments of the transcript
LastSegments(ft, n) == SubSeq(ft, Len(ft) - n + 1, Len(ft))

C19_Step ==
    AllCallsFailToDecode =>
      LET calls == response.tool_calls
      IN  /\ messages' = messages
          /\ invoked' = invoked
          /\ tool_results' = tool_results
          /\ nReturned' = nReturned
          /\ inflight = EmptyBag
          /\ pc' \in {"loop", "submit"}
          /\ pc' = "loop" =>
               /\ idx <= Len(calls)
               /\ idx' = idx + 1
               /\ submits' = submits
               /\ final_text' = Append(final_text, DecodeErrorSegment(calls[idx]))
          /\ pc' = "submit" =>
               /\ idx = Len(calls) + 1
               /\ final_text' = final_text
               /\ Len(final_text) >= Len(calls)
               /\ LastSegments(final_text, Len(calls)) =
                    [k \in 1..Len(calls) |-> DecodeErrorSegment(calls[k])]
               /\ Len(submits') = Len(submits) + 1
               /\ submits'[Len(submits')].messages =
                    submits[Len(submits)].messages
               /\ submits'[Len(submits')].messages = messages

\* C19: in Variant B, when every tool call of a batch fails to decode,
\* processing the batch leaves the conversation unchanged (no assistant turn,
\* no tool turn, nothing invoked) and the next submit sends exactly the
\* conversation of the previous submit; only the transcript grows, by one
\* diagnostic per failed call, in call order.
C19_AllFailBatchLeavesConversation == [][C19_Step]_vars

\* C19 witness: a batch of two undecodable calls was processed and the second
\* submit has sent the conversation of the first
C19_Witness ==
    /\ provider = "openai"
    /\ shellPc = "query"
    /\ pc = "submit"
    /\ Len(submits) = 2
    /\ Len(response.tool_calls) = 2
    /\ \A i \in 1..2 : ~Decodable(response.tool_calls[i])
    /\ submits[2].messages = submits[1].messages
    /\ invoked = <<>>
    /\ Len(final_text) >= 2
    /\ \A k \in Len(final_text) - 1 .. Len(final_text) : IsDiagnostic(final_text[k])

(* ------------------------------- C20 ---------------------------------- *)

\* a is an initial part of b
IsPrefix(a, b) == Len(a) <= Len(b) /\ SubSeq(b, 1, Len(a)) = a

C20_Step ==
    /\ InQuery' =>
         /\ messages' # <<>>
         /\ messages'[1] = UserTurn(query')
         /\ \A i, j \in 1..Len(submits') :
              i <= j => IsPrefix(submits'[i].messages, submits'[j].messages)
         /\ IsPrefix(submits'[Len(submits')].messages, messages')
    /\ (InQuery /\ InQuery') => IsPrefix(messages, messages')

\* C20: within one process_query run the conversation is an append-only log:
\* its first turn is the user turn with the query, every step leaves the
\* turns already there in place and unmodified, and the conversation sent
\* with a submit is a prefix of the conversation sent with every later submit
\* of the same query.
C20_ConversationIsAppendOnly == [][C20_Step]_vars

\* C20 witness: a query has sent three submits, each with a longer
\* conversation than the one before
C20_Witness ==
    /\ InQuery
    /\ Len(submits) = 3
    /\ Len(submits[1].messages) < Len(submits[2].messages)
    /\ Len(submits[2].messages) < Len(submits[3].messages)
    /\ submits[3].messages[1] = UserTurn(query)

====
